---------------------------- MODULE Spec2Model ----------------------------
(***************************************************************************)
(* Model of loo::Looper and loo::detail::LoopContext                       *)
(* (Examples/Looper/Looper.cpp): a run loop owned by one thread that       *)
(* executes scheduled actions, with producers scheduling from any thread.  *)
(*                                                                         *)
(* Time is in milliseconds.  The monotonic clock is observed at the        *)
(* instants of ClockSamples.  A ManagedAction is a record; its `id' is the *)
(* identity of the heap object (the order of allocation), its `repeat'     *)
(* stands for the callable: the value the body returns.                    *)
(***************************************************************************)
EXTENDS Integers, Sequences, FiniteSets, TLC

\* ------------------------------------------------------------------ bounds
MaxActions == 2
MaxRuns == 1
MaxTime == 450

\* ---------------------------------------------------------------- constants
InitialTicketCounter == 100
BusyWaitThreshold == 2
TimepointMax == 2147483647

ClockSamples == {0, 99, 350, MaxTime}
Delays == {0, 1}

\* The three kinds of schedule call: a one-shot body, a repeating body that
\* catches up, a repeating body that tolerates drift.
ActionKinds ==
    { [repeat |-> FALSE, interval |-> 0, catchUp |-> FALSE],
      [repeat |-> TRUE, interval |-> 100, catchUp |-> TRUE],
      [repeat |-> TRUE, interval |-> 100, catchUp |-> FALSE] }

Ids == 1..MaxActions
CancelArgs == InitialTicketCounter..(InitialTicketCounter + MaxActions)

VARIABLES
    mQuit,              \* Looper::mQuit
    mTicketCounter,     \* LoopContext::mTicketCounter
    mQueuedActions,     \* LoopContext::mQueuedActions
    mPendingActions,    \* LoopContext::mPendingActions
    mMutex,             \* Looper::mMutex: "free" or its holder
    notified,           \* Looper::mMutexCond: a notification reached the waiter
    pc,                 \* position of the owning thread in run()
    runs,               \* number of run() calls so far
    sleepUntil,         \* run(): local sleepUntil
    now,                \* runQueued(): local now
    idx,                \* runQueued(): position of the foreach in mQueuedActions
    call,               \* the last Looper call of the running body and its result
    clock,              \* getMonotonicTime()
    nAlloc,             \* history: ManagedAction objects allocated
    issued,             \* history: tickets returned, in order
    hist,               \* history per object: firings and cancellation
    passFired           \* history: ids invoked in the current execution pass

vars == << mQuit, mTicketCounter, mQueuedActions, mPendingActions, mMutex,
           notified, pc, runs, sleepUntil, now, idx, call, clock,
           nAlloc, issued, hist, passFired >>

NoCall == [op |-> "none", ticket |-> 0, ret |-> FALSE, live |-> FALSE]

\* T0: the trigger time given at schedule; fired: body invocations; firstNow:
\* the clock reading of the pass that first invoked it (both kept while the
\* object exists); cancelled: cancel() returned true for it; swept: it was
\* scheduled before a cancelAll() or quit() call; threw: its body has thrown;
\* freed: the number of times the object has been deleted.
NoHist == [T0 |-> -1, fired |-> 0, firstNow |-> -1,
           cancelled |-> FALSE, swept |-> FALSE, threw |-> FALSE, freed |-> 0]

\* ------------------------------------------------------- LoopContext (pure)

ManagedAction(id, ticket, kind, triggerTime) ==
    [id |-> id, ticket |-> ticket, repeat |-> kind.repeat,
     interval |-> kind.interval, catchUp |-> kind.catchUp,
     triggerTime |-> triggerTime, isCancelled |-> FALSE]

\* Mutant: the wake time is the trigger time of the first entry.
WakeTime_First(q, i, w) == IF q = << >> THEN w ELSE q[1].triggerTime

RECURSIVE WakeTime(_, _, _)
WakeTime(q, i, w) ==
    IF i > Len(q) THEN w
    ELSE WakeTime(q, i + 1, IF q[i].triggerTime < w THEN q[i].triggerTime ELSE w)

\* Mutant: queuePending keeps the cancelled entries.
IsLive_Always(a) == TRUE

IsLive(a) == ~a.isCancelled

\* The order in which the live queued actions and the pending ones are merged.
Merge(p, live) == p \o live

\* Mutant: the old queued vector is not cleared before the swap.
queuePending_NoClear(q, p) ==
    LET merged == Merge(p, SelectSeq(q, IsLive))
    IN  [queued |-> merged, pending |-> q,
         wakeTime |-> WakeTime(merged, 1, TimepointMax)]

queuePending(q, p) ==
    LET merged == Merge(p, SelectSeq(q, IsLive))
    IN  [queued |-> merged, pending |-> << >>,
         wakeTime |-> WakeTime(merged, 1, TimepointMax)]

\* Mutant: the busy-wait never sees a pending action.
hasPending_Never(p) == FALSE

hasPending(p) == p # << >>

RECURSIVE FindTicket(_, _, _)
FindTicket(s, ticket, i) ==
    IF i > Len(s) THEN 0
    ELSE IF s[i].ticket = ticket THEN i
    ELSE FindTicket(s, ticket, i + 1)

\* Mutant: an entry that is already cancelled is reported as cancelled now.
tryCancelQueued_IgnoresFlag(q, ticket) ==
    LET i == FindTicket(q, ticket, 1)
    IN  IF i = 0 THEN [queued |-> q, ret |-> FALSE]
        ELSE [queued |-> [q EXCEPT ![i].isCancelled = TRUE], ret |-> TRUE]

tryCancelQueued(q, ticket) ==
    LET i == FindTicket(q, ticket, 1)
    IN  IF i = 0 THEN [queued |-> q, ret |-> FALSE]
        ELSE IF q[i].isCancelled THEN [queued |-> q, ret |-> FALSE]
        ELSE [queued |-> [q EXCEPT ![i].isCancelled = TRUE], ret |-> TRUE]

RemoveAt(s, i) == SubSeq(s, 1, i - 1) \o SubSeq(s, i + 1, Len(s))

\* Mutant: the entry is deleted and not erased from the vector.
tryCancelPending_NoErase(p, ticket) ==
    LET i == FindTicket(p, ticket, 1)
    IN  IF i = 0 THEN [pending |-> p, ret |-> FALSE]
        ELSE [pending |-> p, ret |-> TRUE]

tryCancelPending(p, ticket) ==
    LET i == FindTicket(p, ticket, 1)
    IN  IF i = 0 THEN [pending |-> p, ret |-> FALSE]
        ELSE [pending |-> RemoveAt(p, i), ret |-> TRUE]

\* Mutant: the queued actions are left as they are.
cancelAllQueued_Noop(q) == q

cancelAllQueued(q) == [i \in DOMAIN q |-> [q[i] EXCEPT !.isCancelled = TRUE]]

cancelAllPending(p) == << >>

\* Mutant: the counter is read without being incremented.
NextTicket_NoIncrement(counter) == counter

\* ++mTicketCounter
NextTicket(counter) == counter + 1

scheduleImpl(counter, p, id, kind, triggerTime) ==
    LET t == NextTicket(counter)
    IN  [counter |-> t,
         pending |-> Append(p, ManagedAction(id, t, kind, triggerTime)),
         ticket |-> t]

\* Mutant: catchUp is ignored, every repeating action restarts from now.
Reschedule_AlwaysFromNow(a, n) == n + a.interval

\* Mutant: catchUp is ignored, every repeating action advances by interval.
Reschedule_AlwaysCatchUp(a, n) == a.triggerTime + a.interval

\* runQueued(): the new trigger time of an action whose body returned true.
Reschedule(a, n) ==
    IF a.catchUp THEN a.triggerTime + a.interval ELSE n + a.interval

\* Mutant: an action whose body returned false is not marked cancelled.
AfterBody_KeepsOnce(a, n) ==
    IF a.repeat THEN [a EXCEPT !.triggerTime = Reschedule(a, n)] ELSE a

\* runQueued(): the action after its body has returned `repeat'.
AfterBody(a, n) ==
    IF a.repeat THEN [a EXCEPT !.triggerTime = Reschedule(a, n)]
    ELSE [a EXCEPT !.isCancelled = TRUE]

\* Mutant: the foreach does not compare the trigger time with the clock.
IsDue_IgnoresTime(a, n) == ~a.isCancelled

\* Mutant: the foreach does not skip cancelled actions.
IsDue_IgnoresCancelled(a, n) == a.triggerTime <= n

\* runQueued(): whether the foreach invokes the body of `a'.
IsDue(a, n) == ~a.isCancelled /\ a.triggerTime <= n

\* Mutant: a trigger time exactly 2 ms ahead is busy-waited for.
WaitStrategy_Inclusive(timeout) ==
    IF timeout <= BusyWaitThreshold THEN "busy" ELSE "condwait"

\* run(): how the loop waits for a trigger time `timeout' ahead.
WaitStrategy(timeout) ==
    IF timeout < BusyWaitThreshold THEN "busy" ELSE "condwait"

\* ------------------------------------------------------------ Looper (pure)

cancel(q, p, ticket) ==
    LET r1 == tryCancelQueued(q, ticket)
        r2 == tryCancelPending(p, ticket)
    IN  IF r1.ret THEN [queued |-> r1.queued, pending |-> p, ret |-> TRUE]
        ELSE [queued |-> r1.queued, pending |-> r2.pending, ret |-> r2.ret]

cancelAll(q, p) ==
    [queued |-> cancelAllQueued(q), pending |-> cancelAllPending(p)]

\* The entries each operation passes to `delete'.
IsCancelledEntry(a) == a.isCancelled

DeletedByQueuePending(q) == SelectSeq(q, IsCancelledEntry)

DeletedByTryCancelPending(p, ticket) ==
    LET i == FindTicket(p, ticket, 1)
    IN  IF i = 0 THEN << >> ELSE << p[i] >>

DeletedByCancelAllPending(p) == p

DeletedByCancel(q, p, ticket) ==
    IF tryCancelQueued(q, ticket).ret THEN << >>
    ELSE DeletedByTryCancelPending(p, ticket)

\* ------------------------------------------------------------------ history

SeqRange(s) == {s[i] : i \in DOMAIN s}

\* The live (not cancelled, not destroyed) actions held by the two sequences.
LiveIn(q, p) == {a \in SeqRange(q) \cup SeqRange(p) : ~a.isCancelled}

HasLive(q, p, ticket) == \E a \in LiveIn(q, p) : a.ticket = ticket

\* The objects that are live in (q, p) and no longer live in (q2, p2).
Gone(q, p, q2, p2) ==
    {a.id : a \in LiveIn(q, p)} \ {a.id : a \in LiveIn(q2, p2)}

\* cancel(ticket) has returned `ret': when true, the object the ticket was
\* issued for is recorded as cancelled.
MarkCancelled(h, ticket, ret) ==
    [id \in Ids |->
        IF ret /\ id \in DOMAIN issued /\ issued[id] = ticket
        THEN [h[id] EXCEPT !.cancelled = TRUE]
        ELSE h[id]]

\* Every object allocated so far was scheduled before the present call.
Sweep(h) ==
    [id \in Ids |-> IF id <= nAlloc THEN [h[id] EXCEPT !.swept = TRUE] ELSE h[id]]

\* The objects of the entries in `s' have been deleted, once per entry.
Free(h, s) ==
    [id \in Ids |->
        [h[id] EXCEPT !.freed = @ + Cardinality({i \in DOMAIN s : s[i].id = id})]]

\* T0 and firstNow are kept only while the object is in one of the sequences.
Prune(h, q, p) ==
    LET held == {a.id : a \in SeqRange(q) \cup SeqRange(p)}
    IN  [id \in Ids |->
            IF id \in held THEN h[id]
            ELSE [h[id] EXCEPT !.T0 = -1, !.firstNow = -1]]

\* -------------------------------------------------------------------- state

Init ==
    /\ mQuit = FALSE
    /\ mTicketCounter = InitialTicketCounter
    /\ mQueuedActions = << >>
    /\ mPendingActions = << >>
    /\ mMutex = "free"
    /\ notified = FALSE
    /\ pc = "created"
    /\ runs = 0
    /\ sleepUntil = 0
    /\ now = 0
    /\ idx = 0
    /\ call = NoCall
    /\ clock = 0
    /\ nAlloc = 0
    /\ issued = << >>
    /\ hist = [id \in Ids |-> NoHist]
    /\ passFired = << >>

\* The monotonic clock advances to a later sample.
Tick ==
    /\ \E t \in ClockSamples : t > clock /\ clock' = t
    /\ UNCHANGED << mQuit, mTicketCounter, mQueuedActions, mPendingActions,
                    mMutex, notified, pc, runs, sleepUntil, now, idx, call,
                    nAlloc, issued, hist, passFired >>

\* ------------------------------------------------------------- scheduling

\* A schedule call: under the mutex, scheduleImpl; then notify the condition.
ScheduleCall(kind, delay) ==
    /\ mMutex = "free"
    /\ nAlloc < MaxActions
    /\ clock + delay <= MaxTime
    /\ LET r == scheduleImpl(mTicketCounter, mPendingActions, nAlloc + 1,
                             kind, clock + delay)
       IN  /\ mTicketCounter' = r.counter
           /\ mPendingActions' = r.pending
           /\ issued' = Append(issued, r.ticket)
    /\ nAlloc' = nAlloc + 1
    /\ hist' = [hist EXCEPT ![nAlloc + 1].T0 = clock + delay]
    /\ notified' = (notified \/ pc = "condwait")
    /\ UNCHANGED << mQuit, mQueuedActions, mMutex, pc, runs, sleepUntil, now,
                    idx, clock, passFired >>

\* A schedule call made by a thread other than the owning thread.
Schedule ==
    \E kind \in ActionKinds, delay \in Delays :
        /\ ScheduleCall(kind, delay)
        /\ UNCHANGED call

\* ------------------------------------------------------------ Looper::run

Run ==
    /\ pc \in {"created", "stopped", "unwound"}
    /\ runs < MaxRuns
    /\ runs' = runs + 1
    /\ mQuit' = FALSE
    /\ pc' = "lock"
    /\ UNCHANGED << mTicketCounter, mQueuedActions, mPendingActions, mMutex,
                    notified, sleepUntil, now, idx, call, clock, nAlloc,
                    issued, hist, passFired >>

Lock ==
    /\ pc = "lock"
    /\ mMutex = "free"
    /\ mMutex' = "loop"
    /\ pc' = "reconcile"
    /\ UNCHANGED << mQuit, mTicketCounter, mQueuedActions, mPendingActions,
                    notified, runs, sleepUntil, now, idx, call, clock, nAlloc,
                    issued, hist, passFired >>

\* Mutant: the UniqueLock is still held when the inner loop is left.
Reconcile_KeepsLock ==
    /\ pc = "reconcile"
    /\ mMutex = "loop"
    /\ LET r == queuePending(mQueuedActions, mPendingActions)
       IN  /\ mQueuedActions' = r.queued
           /\ mPendingActions' = r.pending
           /\ IF r.wakeTime <= clock
              THEN /\ pc' = "exec"
                   /\ sleepUntil' = 0
                   /\ UNCHANGED << mMutex, notified >>
              ELSE IF WaitStrategy(r.wakeTime - clock) = "busy"
              THEN /\ pc' = "busy"
                   /\ sleepUntil' = r.wakeTime
                   /\ UNCHANGED << mMutex, notified >>
              ELSE /\ pc' = "condwait"
                   /\ sleepUntil' = r.wakeTime
                   /\ mMutex' = "free"
                   /\ notified' = FALSE
           /\ hist' = Prune(Free(hist, DeletedByQueuePending(mQueuedActions)),
                            r.queued, r.pending)
    /\ UNCHANGED << mQuit, mTicketCounter, runs, now, idx, call, clock, nAlloc,
                    issued, passFired >>

\* One round of the inner loop: reconcile, read the clock, leave or wait.
Reconcile ==
    /\ pc = "reconcile"
    /\ mMutex = "loop"
    /\ LET r == queuePending(mQueuedActions, mPendingActions)
       IN  /\ mQueuedActions' = r.queued
           /\ mPendingActions' = r.pending
           /\ IF r.wakeTime <= clock
              THEN /\ pc' = "exec"
                   /\ mMutex' = "free"
                   /\ sleepUntil' = 0
                   /\ UNCHANGED notified
              ELSE IF WaitStrategy(r.wakeTime - clock) = "busy"
              THEN /\ pc' = "busy"
                   /\ sleepUntil' = r.wakeTime
                   /\ UNCHANGED << mMutex, notified >>
              ELSE /\ pc' = "condwait"
                   /\ sleepUntil' = r.wakeTime
                   /\ mMutex' = "free"
                   /\ notified' = FALSE
           /\ hist' = Prune(Free(hist, DeletedByQueuePending(mQueuedActions)),
                            r.queued, r.pending)
    /\ UNCHANGED << mQuit, mTicketCounter, runs, now, idx, call, clock, nAlloc,
                    issued, passFired >>

BusyUnlock ==
    /\ pc = "busy"
    /\ mMutex = "loop"
    /\ mMutex' = "free"
    /\ pc' = "busy_yield"
    /\ UNCHANGED << mQuit, mTicketCounter, mQueuedActions, mPendingActions,
                    notified, runs, sleepUntil, now, idx, call, clock, nAlloc,
                    issued, hist, passFired >>

\* Mutant: the busy-wait does not take the mutex again after the yield.
BusyLock_NoRelock ==
    /\ pc = "busy_yield"
    /\ mMutex = "free"
    /\ pc' = IF clock < sleepUntil /\ ~hasPending(mPendingActions)
             THEN "busy" ELSE "reconcile"
    /\ UNCHANGED << mQuit, mTicketCounter, mQueuedActions, mPendingActions,
                    mMutex, notified, runs, sleepUntil, now, idx, call, clock,
                    nAlloc, issued, hist, passFired >>

BusyLock ==
    /\ pc = "busy_yield"
    /\ mMutex = "free"
    /\ mMutex' = "loop"
    /\ pc' = IF clock < sleepUntil /\ ~hasPending(mPendingActions)
             THEN "busy" ELSE "reconcile"
    /\ UNCHANGED << mQuit, mTicketCounter, mQueuedActions, mPendingActions,
                    notified, runs, sleepUntil, now, idx, call, clock, nAlloc,
                    issued, hist, passFired >>

\* wait_for returns, the mutex held again.
Wake ==
    /\ mMutex = "free"
    /\ mMutex' = "loop"
    /\ pc' = "reconcile"
    /\ notified' = FALSE
    /\ UNCHANGED << mQuit, mTicketCounter, mQueuedActions, mPendingActions,
                    runs, sleepUntil, now, idx, call, clock, nAlloc, issued,
                    hist, passFired >>

WakeNotified == pc = "condwait" /\ notified /\ Wake

WakeTimeout == pc = "condwait" /\ clock >= sleepUntil /\ Wake

WakeSpurious == pc = "condwait" /\ ~notified /\ clock < sleepUntil /\ Wake

\* assert (!mQuit); runQueued() reads the clock and starts its foreach.
Exec ==
    /\ pc = "exec"
    /\ now' = clock
    /\ idx' = 1
    /\ passFired' = << >>
    /\ pc' = "iter"
    /\ UNCHANGED << mQuit, mTicketCounter, mQueuedActions, mPendingActions,
                    mMutex, notified, runs, sleepUntil, call, clock, nAlloc,
                    issued, hist >>

\* ------------------------------------------------- LoopContext::runQueued

\* The foreach reaches an action that is cancelled or not yet due.
SkipAction ==
    /\ pc = "iter"
    /\ idx <= Len(mQueuedActions)
    /\ ~IsDue(mQueuedActions[idx], now)
    /\ idx' = idx + 1
    /\ UNCHANGED << mQuit, mTicketCounter, mQueuedActions, mPendingActions,
                    mMutex, notified, pc, runs, sleepUntil, now, call, clock,
                    nAlloc, issued, hist, passFired >>

\* The foreach reaches a due action and invokes its body.
InvokeBody ==
    /\ pc = "iter"
    /\ idx <= Len(mQueuedActions)
    /\ IsDue(mQueuedActions[idx], now)
    /\ pc' = "body"
    /\ call' = NoCall
    /\ LET id == mQueuedActions[idx].id
       IN  /\ hist' = [hist EXCEPT
                        ![id].fired = @ + 1,
                        ![id].firstNow = IF @ = -1 THEN now ELSE @]
           /\ passFired' = Append(passFired, id)
    /\ UNCHANGED << mQuit, mTicketCounter, mQueuedActions, mPendingActions,
                    mMutex, notified, runs, sleepUntil, now, idx, clock,
                    nAlloc, issued >>

\* Mutant: the foreach goes on after a quit.
BreakOnQuit_Never(quit) == FALSE

\* if (*quit) break;
BreakOnQuit(quit) == quit

\* The body returns `repeat': reschedule or mark cancelled, then the quit check.
BodyReturn ==
    /\ pc = "body"
    /\ mQueuedActions' =
          [mQueuedActions EXCEPT ![idx] = AfterBody(mQueuedActions[idx], now)]
    /\ call' = NoCall
    /\ IF BreakOnQuit(mQuit)
       THEN /\ pc' = "yield"
            /\ idx' = 0
            /\ now' = 0
            /\ passFired' = << >>
       ELSE /\ pc' = "iter"
            /\ idx' = idx + 1
            /\ UNCHANGED << now, passFired >>
    /\ UNCHANGED << mQuit, mTicketCounter, mPendingActions, mMutex, notified,
                    runs, sleepUntil, clock, nAlloc, issued, hist >>

\* Mutant: the exception is logged and swallowed, the foreach goes on.
BodyThrow_Swallowed ==
    /\ pc = "body"
    /\ pc' = "iter"
    /\ call' = NoCall
    /\ idx' = idx + 1
    /\ hist' = [hist EXCEPT ![mQueuedActions[idx].id].threw = TRUE]
    /\ UNCHANGED << mQuit, mTicketCounter, mQueuedActions, mPendingActions,
                    mMutex, notified, runs, sleepUntil, now, clock, nAlloc,
                    issued, passFired >>

\* The body throws: the exception is logged, rethrown, and unwinds run().
BodyThrow ==
    /\ pc = "body"
    /\ pc' = "unwound"
    /\ call' = NoCall
    /\ idx' = 0
    /\ now' = 0
    /\ passFired' = << >>
    /\ hist' = [hist EXCEPT ![mQueuedActions[idx].id].threw = TRUE]
    /\ UNCHANGED << mQuit, mTicketCounter, mQueuedActions, mPendingActions,
                    mMutex, notified, runs, sleepUntil, clock, nAlloc, issued >>

\* The foreach is over.
EndPass ==
    /\ pc = "iter"
    /\ idx > Len(mQueuedActions)
    /\ pc' = "yield"
    /\ idx' = 0
    /\ now' = 0
    /\ passFired' = << >>
    /\ UNCHANGED << mQuit, mTicketCounter, mQueuedActions, mPendingActions,
                    mMutex, notified, runs, sleepUntil, call, clock, nAlloc,
                    issued, hist >>

\* Mutant: the outer loop goes on although the quit flag is set.
LoopCheck_IgnoresQuit ==
    /\ pc = "yield"
    /\ pc' = "lock"
    /\ UNCHANGED << mQuit, mTicketCounter, mQueuedActions, mPendingActions,
                    mMutex, notified, runs, sleepUntil, now, idx, call, clock,
                    nAlloc, issued, hist, passFired >>

\* yield(); while (!mQuit)
LoopCheck ==
    /\ pc = "yield"
    /\ pc' = IF mQuit THEN "flush" ELSE "lock"
    /\ UNCHANGED << mQuit, mTicketCounter, mQueuedActions, mPendingActions,
                    mMutex, notified, runs, sleepUntil, now, idx, call, clock,
                    nAlloc, issued, hist, passFired >>

\* The final reconciliation of run(), under the mutex.
Flush ==
    /\ pc = "flush"
    /\ mMutex = "free"
    /\ LET r == queuePending(mQueuedActions, mPendingActions)
       IN  /\ mQueuedActions' = r.queued
           /\ mPendingActions' = r.pending
           /\ hist' = Prune(Free(hist, DeletedByQueuePending(mQueuedActions)),
                            r.queued, r.pending)
    /\ pc' = "stopped"
    /\ UNCHANGED << mQuit, mTicketCounter, mMutex, notified, runs, sleepUntil,
                    now, idx, call, clock, nAlloc, issued, passFired >>

\* ------------------------------------- calls made by a running action body
\* A body makes at most one call of the Looper before it returns or throws.

BodyCancel ==
    /\ pc = "body"
    /\ call = NoCall
    /\ mMutex = "free"
    /\ \E ticket \in CancelArgs :
         LET r == cancel(mQueuedActions, mPendingActions, ticket)
         IN  /\ mQueuedActions' = r.queued
             /\ mPendingActions' = r.pending
             /\ call' = [op |-> "cancel", ticket |-> ticket, ret |-> r.ret,
                         live |-> HasLive(mQueuedActions, mPendingActions, ticket)]
             /\ hist' = Prune(Free(MarkCancelled(hist, ticket, r.ret),
                                   DeletedByCancel(mQueuedActions,
                                                   mPendingActions, ticket)),
                              r.queued, r.pending)
    /\ UNCHANGED << mQuit, mTicketCounter, mMutex, notified, pc, runs,
                    sleepUntil, now, idx, clock, nAlloc, issued, passFired >>

BodyCancelAll ==
    /\ pc = "body"
    /\ call = NoCall
    /\ mMutex = "free"
    /\ LET r == cancelAll(mQueuedActions, mPendingActions)
       IN  /\ mQueuedActions' = r.queued
           /\ mPendingActions' = r.pending
           /\ hist' = Prune(Free(Sweep(hist),
                                 DeletedByCancelAllPending(mPendingActions)),
                            r.queued, r.pending)
    /\ call' = [NoCall EXCEPT !.op = "cancelAll"]
    /\ UNCHANGED << mQuit, mTicketCounter, mMutex, notified, pc, runs,
                    sleepUntil, now, idx, clock, nAlloc, issued, passFired >>

BodyQuit ==
    /\ pc = "body"
    /\ call = NoCall
    /\ mMutex = "free"
    /\ LET r == cancelAll(mQueuedActions, mPendingActions)
       IN  /\ mQueuedActions' = r.queued
           /\ mPendingActions' = r.pending
           /\ hist' = Prune(Free(Sweep(hist),
                                 DeletedByCancelAllPending(mPendingActions)),
                            r.queued, r.pending)
    /\ mQuit' = TRUE
    /\ call' = [NoCall EXCEPT !.op = "quit"]
    /\ UNCHANGED << mTicketCounter, mMutex, notified, pc, runs, sleepUntil,
                    now, idx, clock, nAlloc, issued, passFired >>

BodySchedule ==
    /\ pc = "body"
    /\ call = NoCall
    /\ \E kind \in ActionKinds, delay \in Delays :
         /\ ScheduleCall(kind, delay)
         /\ call' = [NoCall EXCEPT !.op = "schedule", !.ticket = mTicketCounter']

\* ------------------------------------------------------------ specification

Next ==
    \/ Tick
    \/ Schedule
    \/ Run
    \/ Lock
    \/ Reconcile
    \/ BusyUnlock
    \/ BusyLock
    \/ WakeNotified
    \/ WakeTimeout
    \/ WakeSpurious
    \/ Exec
    \/ SkipAction
    \/ InvokeBody
    \/ BodyCancel
    \/ BodyCancelAll
    \/ BodyQuit
    \/ BodySchedule
    \/ BodyReturn
    \/ BodyThrow
    \/ EndPass
    \/ LoopCheck
    \/ Flush

Spec == Init /\ [][Next]_vars

\* The steps the owning thread takes whenever it can: run() is called, the
\* thread is scheduled, a notified or timed-out wait returns, a body ends.
LoopProgress ==
    \/ Run
    \/ Lock
    \/ Reconcile
    \/ BusyUnlock
    \/ BusyLock
    \/ WakeNotified
    \/ WakeTimeout
    \/ Exec
    \/ SkipAction
    \/ InvokeBody
    \/ BodyReturn
    \/ BodyThrow
    \/ EndPass
    \/ LoopCheck
    \/ Flush

\* The owning thread keeps running and the clock keeps advancing.
FairSpec == Init /\ [][Next]_vars /\ WF_vars(LoopProgress) /\ WF_vars(Tick)

\* ------------------------------------------------------------------- claims

Queued == SeqRange(mQueuedActions)
Held == SeqRange(mQueuedActions) \cup SeqRange(mPendingActions)
Live == LiveIn(mQueuedActions, mPendingActions)
Waiting == pc \in {"condwait", "busy", "busy_yield"}
NoFiring == \A id \in Ids : hist'[id].fired = hist[id].fired

\* C1: once cancel(t) has returned true for an action, its body is never
\* invoked again, in the current pass or in any later cycle.
C1_CancelledNeverInvoked ==
    [][\A id \in Ids : hist[id].cancelled => hist'[id].fired = hist[id].fired]_vars

\* C1 witness: the foreach of a pass stands at an action that is due and for
\* which cancel() has returned true.
C1_Witness ==
    /\ pc = "iter"
    /\ idx <= Len(mQueuedActions)
    /\ hist[mQueuedActions[idx].id].cancelled
    /\ mQueuedActions[idx].triggerTime <= now

IsHeld(id) == \E a \in Held : a.id = id
IsLiveOnce(id) == \E a \in Live : a.id = id /\ ~a.repeat
Halted == pc \in {"stopped", "unwound"}

\* C2, as stated: a non-repeating action that is never invoked left the live
\* set by a cancellation made before its trigger time.
C2_AsStated ==
    [][\A a \in Live :
          ( /\ ~a.repeat
            /\ hist[a.id].fired = 0
            /\ a.id \in Gone(mQueuedActions, mPendingActions,
                             mQueuedActions', mPendingActions') )
          => clock < a.triggerTime]_vars

\* C2, amended: a non-repeating action is not invoked after its body has
\* returned, nor after it was destroyed; it is never invoked when cancel,
\* cancelAll or quit covered it before it fired; and while it is live it
\* comes to fire, to be cancelled, or run() ends.
C2_OnceActions ==
    /\ [][\A id \in Ids :
            ( \/ ~IsHeld(id)
              \/ \E a \in Held : /\ a.id = id /\ ~a.repeat
                                 /\ hist[id].fired >= 1 /\ ~hist[id].threw )
            => hist'[id].fired = hist[id].fired]_vars
    /\ [][\A id \in Ids :
            ((hist[id].cancelled \/ hist[id].swept) /\ hist[id].fired = 0)
            => hist'[id].fired = 0]_vars
    /\ \A id \in Ids :
          IsLiveOnce(id) ~> ( \/ hist[id].fired = 1
                              \/ hist[id].cancelled
                              \/ hist[id].swept
                              \/ Halted )

\* C2 witness: a non-repeating action has fired once, was destroyed by the
\* next reconciliation, and a later pass is invoking another body.
C2_Witness ==
    /\ pc = "body"
    /\ \E id \in 1..nAlloc :
          /\ hist[id].fired = 1
          /\ ~IsHeld(id)
          /\ ~hist[id].cancelled
          /\ ~hist[id].swept

\* C3: two live actions invoked in the same execution pass are invoked in the
\* order of their schedule calls (the order of allocation).
C3_FifoWithinPass ==
    \A i, j \in DOMAIN passFired : i < j => passFired[i] < passFired[j]

\* C4, as stated: a catch-up action with interval 100 first run 350 ms after
\* its first trigger time T has fired exactly 3 times when the loop waits
\* again, and its trigger time is then T + 300.
C4_AsStated ==
    \A a \in Queued :
        ( /\ a.repeat /\ a.catchUp /\ a.interval = 100 /\ ~a.isCancelled
          /\ ~hist[a.id].threw
          /\ hist[a.id].firstNow = hist[a.id].T0 + 350
          /\ Waiting
          /\ clock < hist[a.id].T0 + 400 )
        => /\ hist[a.id].fired = 3
           /\ a.triggerTime = hist[a.id].T0 + 300

\* C4, amended: such an action has fired exactly 4 times (for the trigger
\* times T, T + 100, T + 200, T + 300) when the loop waits again with the
\* clock still below T + 400, and its trigger time is then T + 400.
C4_CatchUp ==
    \A a \in Queued :
        ( /\ a.repeat /\ a.catchUp /\ a.interval = 100 /\ ~a.isCancelled
          /\ ~hist[a.id].threw
          /\ hist[a.id].firstNow = hist[a.id].T0 + 350
          /\ Waiting
          /\ clock < hist[a.id].T0 + 400 )
        => /\ hist[a.id].fired = 4
           /\ a.triggerTime = hist[a.id].T0 + 400

\* C4 witness: the loop waits after the burst of a catch-up action that was
\* first run 350 ms late.
C4_Witness ==
    \E a \in Queued :
        /\ a.repeat /\ a.catchUp /\ a.interval = 100 /\ ~a.isCancelled
        /\ ~hist[a.id].threw
        /\ hist[a.id].firstNow = hist[a.id].T0 + 350
        /\ pc = "condwait"
        /\ clock < hist[a.id].T0 + 400
        /\ hist[a.id].fired = 4

\* C5: a drift-tolerant action with interval 100 first run 350 ms late has
\* fired exactly once as long as the clock is below the time of that pass
\* plus 100 ms; and whenever the body of a drift-tolerant action returns, its
\* new trigger time is the clock reading of that pass plus its interval.
C5_Drift ==
    /\ [](\A a \in Queued :
            ( /\ a.repeat /\ ~a.catchUp /\ a.interval = 100 /\ ~a.isCancelled
              /\ ~hist[a.id].threw
              /\ hist[a.id].firstNow = hist[a.id].T0 + 350
              /\ clock < hist[a.id].firstNow + 100 )
            => hist[a.id].fired = 1)
    /\ [][ ( /\ pc = "body" /\ pc' \in {"iter", "yield"}
             /\ mQueuedActions[idx].repeat
             /\ ~mQueuedActions[idx].catchUp )
           => mQueuedActions'[idx].triggerTime
                 = now + mQueuedActions[idx].interval ]_vars

\* C5 witness: the loop waits for the next trigger time, resume time + 100,
\* of a drift-tolerant action that was first run 350 ms late.
C5_Witness ==
    \E a \in Queued :
        /\ a.repeat /\ ~a.catchUp /\ a.interval = 100 /\ ~a.isCancelled
        /\ hist[a.id].firstNow = hist[a.id].T0 + 350
        /\ hist[a.id].fired = 1
        /\ pc = "condwait"
        /\ sleepUntil = hist[a.id].firstNow + 100
        /\ a.triggerTime = sleepUntil

\* C6: the tickets returned are strictly increasing in the order of the
\* calls, hence pairwise distinct, each is greater than 100, and no two live
\* actions of queued and pending carry the same ticket.
C6_TicketUniqueness ==
    /\ \A i, j \in DOMAIN issued : i < j => issued[i] < issued[j]
    /\ \A i \in DOMAIN issued : issued[i] > 100
    /\ \A a, b \in Live : a.ticket = b.ticket => a.id = b.id
    /\ \A a \in Held : a.id \in DOMAIN issued /\ issued[a.id] = a.ticket

\* C6 witness: two tickets have been issued, one of them from inside a
\* running body, and both actions are live.
C6_Witness ==
    /\ Len(issued) >= 2
    /\ Cardinality(Live) >= 2
    /\ pc = "body"
    /\ call.op = "schedule"

\* C7: when a body has called quit(), the pass ends as soon as that body
\* returns, and no body is invoked while the quit flag is set.
C7_QuitEndsPass ==
    /\ [][(pc = "body" /\ mQuit /\ pc' # "body") => pc' \in {"yield", "unwound"}]_vars
    /\ [][mQuit => NoFiring]_vars

\* C7 witness: a body has called quit() while an action later in queued
\* order had reached its trigger time.
C7_Witness ==
    /\ pc = "body"
    /\ call.op = "quit"
    /\ idx < Len(mQueuedActions)
    /\ mQueuedActions[idx + 1].triggerTime <= now
    /\ hist[mQueuedActions[idx + 1].id].fired = 0

\* C8: cancel(ticket) returns true exactly when a live action with that
\* ticket is in queued or pending at the call; a call that returns false
\* changes neither sequence; after a call that returns true no live action
\* carries the ticket, so that a second cancel returns false; and no live
\* action carries a ticket that was not issued, that was cancelled, or whose
\* non-repeating body has returned.
C8_CancelResult ==
    /\ [][ (call = NoCall /\ call'.op = "cancel")
           => /\ call'.ret = HasLive(mQueuedActions, mPendingActions, call'.ticket)
              /\ ~call'.ret => /\ mQueuedActions' = mQueuedActions
                               /\ mPendingActions' = mPendingActions
              /\ ~HasLive(mQueuedActions', mPendingActions', call'.ticket) ]_vars
    /\ [](\A a \in Live :
            /\ a.ticket \in SeqRange(issued)
            /\ ~hist[a.id].cancelled
            /\ (~a.repeat /\ hist[a.id].fired > 0)
                  => \/ hist[a.id].threw
                     \/ pc = "body" /\ mQueuedActions[idx].id = a.id)

\* C8 witness: a second cancel of a ticket, whose first cancel returned true,
\* has returned false.
C8_Witness ==
    /\ call.op = "cancel"
    /\ ~call.ret
    /\ \E id \in DOMAIN issued : issued[id] = call.ticket /\ hist[id].cancelled

\* C9: when cancelAll() returns, every queued action is marked cancelled and
\* pending is empty; and no action scheduled before the call is invoked
\* afterwards.
C9_CancelAll ==
    /\ [][ (call = NoCall /\ call'.op = "cancelAll")
           => /\ \A a \in SeqRange(mQueuedActions') : a.isCancelled
              /\ Len(mQueuedActions') = Len(mQueuedActions)
              /\ mPendingActions' = << >> ]_vars
    /\ [][\A id \in Ids : hist[id].swept => hist'[id].fired = hist[id].fired]_vars

\* C9 witness: cancelAll() has returned while an action later in queued
\* order was due and had not been invoked.
C9_Witness ==
    /\ pc = "body"
    /\ call.op = "cancelAll"
    /\ \E j \in DOMAIN mQueuedActions :
          /\ j > idx
          /\ mQueuedActions[j].isCancelled
          /\ mQueuedActions[j].triggerTime <= now
          /\ hist[mQueuedActions[j].id].swept
          /\ hist[mQueuedActions[j].id].fired = 0

\* C10: when a body throws, run() is left at once: the sequences stay as they
\* are (the action is neither rescheduled nor marked), and after that no body
\* is invoked and the loop takes no step until run() is called again.
C10_ThrowUnwinds ==
    /\ [][ (\E id \in Ids : hist'[id].threw /\ ~hist[id].threw)
           => /\ pc' = "unwound"
              /\ mQueuedActions' = mQueuedActions
              /\ mPendingActions' = mPendingActions ]_vars
    /\ [][ pc = "unwound"
           => /\ NoFiring
              /\ mQueuedActions' = mQueuedActions
              /\ pc' = "unwound" \/ (pc' = "lock" /\ runs' = runs + 1) ]_vars

\* C10 witness: run() was left by an exception while a later action of the
\* pass was due and had not been invoked.
C10_Witness ==
    /\ pc = "unwound"
    /\ \E i, j \in DOMAIN mQueuedActions :
          /\ i < j
          /\ hist[mQueuedActions[i].id].threw
          /\ ~mQueuedActions[j].isCancelled
          /\ mQueuedActions[j].triggerTime <= clock
          /\ hist[mQueuedActions[j].id].fired = 0

InPending(id) == \E a \in SeqRange(mPendingActions) : a.id = id
Destroyed(id) == hist[id].freed > 0

\* C11: no wake-up is lost.  An action scheduled while the loop waits (in the
\* timed wait, also the one with no queued action, or in the busy-wait) always
\* leaves the wait enabled to return at once: the timed wait has been notified,
\* the busy-wait goes back to reconcile when it sees the pending action.  With
\* the owning thread and the clock progressing, the action is then invoked,
\* unless it is destroyed first or run() ends.
C11_NoLostWakeup ==
    /\ [](pc = "condwait" /\ hasPending(mPendingActions) => notified)
    /\ [][pc = "busy_yield" /\ pc' # pc /\ mPendingActions # << >>
            => pc' = "reconcile"]_vars
    /\ \A id \in Ids :
         (InPending(id) /\ Waiting)
            ~> (hist[id].fired > 0 \/ Destroyed(id) \/ Halted)

\* An action was scheduled while the loop waited with no queued action.
C11_Witness ==
    /\ pc = "condwait"
    /\ sleepUntil = TimepointMax
    /\ mQueuedActions = << >>
    /\ mPendingActions # << >>
    /\ notified

\* C12: lock discipline.  The owning thread holds the mutex exactly while it
\* is at the reconcile step or in the locked part of the busy-wait, so the
\* unlock/lock of the busy-wait leaves it held when the wait loop goes on;
\* pending changes only in a reconcile by the holder of the mutex or in a call
\* that finds the mutex free, takes it and releases it; queued changes only
\* in a step of the owning thread, never in a schedule of another thread.
C12_LockDiscipline ==
    /\ [](mMutex = "loop" <=> pc \in {"reconcile", "busy"})
    /\ [][mPendingActions' # mPendingActions =>
            \/ pc = "reconcile" /\ mMutex = "loop"
            \/ mMutex = "free" /\ mMutex' = "free"]_vars
    /\ [][mQueuedActions' # mQueuedActions =>
            /\ pc \in {"reconcile", "flush", "body"}
            /\ nAlloc' = nAlloc]_vars

\* Another thread has scheduled while the busy-wait had released the mutex.
C12_Witness ==
    /\ pc = "busy_yield"
    /\ mMutex = "free"
    /\ hasPending(mPendingActions)
    /\ clock < sleepUntil

\* C13: the owning thread does not hold the mutex while a pass runs, so a
\* body can take it; a schedule made by a running body appends the new action
\* to pending, leaves queued and the position of the foreach as they are and
\* invokes nothing; no action in pending has ever been invoked.
C13_ReentrantSchedule ==
    /\ [](pc \in {"exec", "iter", "body"} => mMutex = "free")
    /\ [](\A a \in SeqRange(mPendingActions) : hist[a.id].fired = 0)
    /\ [][call = NoCall /\ call'.op = "schedule" =>
            /\ mQueuedActions' = mQueuedActions
            /\ idx' = idx
            /\ pc' = "body"
            /\ passFired' = passFired
            /\ NoFiring
            /\ Len(mPendingActions') = Len(mPendingActions) + 1
            /\ SubSeq(mPendingActions', 1, Len(mPendingActions)) = mPendingActions
            /\ mPendingActions'[Len(mPendingActions')].ticket = call'.ticket]_vars

\* A running body has scheduled an action, which is in pending.
C13_Witness ==
    /\ pc = "body"
    /\ call.op = "schedule"
    /\ \E a \in SeqRange(mPendingActions) : a.ticket = call.ticket

\* C14: no early firing.  A body is invoked only for a live queued action
\* whose trigger time is not later than the clock reading of the pass; the
\* foreach steps over an action that is not due and leaves queued as it is
\* (trigger time, position, liveness); an execution pass begins only when
\* some queued action has a trigger time not later than the clock.
C14_NoEarlyFiring ==
    /\ [][\A id \in Ids : hist'[id].fired > hist[id].fired =>
            /\ pc = "iter"
            /\ now <= clock
            /\ \E a \in Queued :
                  a.id = id /\ ~a.isCancelled /\ a.triggerTime <= now]_vars
    /\ [][(/\ pc = "iter"
           /\ idx <= Len(mQueuedActions)
           /\ ~mQueuedActions[idx].isCancelled
           /\ mQueuedActions[idx].triggerTime > now
           /\ idx' # idx)
            => /\ idx' = idx + 1
               /\ pc' = "iter"
               /\ mQueuedActions' = mQueuedActions
               /\ NoFiring]_vars
    /\ [](pc = "exec" =>
            \E a \in Queued : ~a.isCancelled /\ a.triggerTime <= clock)

\* In a pass that has invoked a body, the foreach has stepped over a live
\* action that is not due.
C14_Witness ==
    /\ pc = "iter"
    /\ passFired # << >>
    /\ \E j \in 1..(idx - 1) :
          /\ j <= Len(mQueuedActions)
          /\ ~mQueuedActions[j].isCancelled
          /\ mQueuedActions[j].triggerTime > now
          /\ hist[mQueuedActions[j].id].fired = 0

\* C15: quit() ends the run.  While the quit flag is set no body is invoked
\* and the owning thread is in the body that called quit(), on its way out of
\* run(), or out of it; when run() returns pending is empty, queued holds no
\* cancelled entry, and every action scheduled before the quit() call has
\* been destroyed.
C15_QuitTerminates ==
    /\ [][mQuit => NoFiring]_vars
    /\ [](mQuit => pc \in {"body", "yield", "flush", "stopped", "unwound"})
    /\ [][pc = "flush" /\ pc' = "stopped" =>
            /\ mQuit
            /\ mPendingActions' = << >>
            /\ \A a \in SeqRange(mQueuedActions') :
                  ~a.isCancelled /\ ~hist'[a.id].swept
            /\ \A id \in Ids : hist'[id].swept => hist'[id].freed = 1]_vars

\* run() has returned after a quit(): the action scheduled before the call is
\* destroyed, one scheduled after it is live in queued.
C15_Witness ==
    /\ pc = "stopped"
    /\ mQuit
    /\ hist[1].swept
    /\ Destroyed(1)
    /\ mPendingActions = << >>
    /\ \E a \in Queued : a.id = 2 /\ ~a.isCancelled

\* The number of entries of queued and pending that point to object `id'.
Holders(id) ==
    Cardinality({i \in DOMAIN mQueuedActions : mQueuedActions[i].id = id})
    + Cardinality({i \in DOMAIN mPendingActions : mPendingActions[i].id = id})

\* C16: unique ownership.  Every action that is allocated and not destroyed
\* is held by exactly one entry of queued or pending, a destroyed action by
\* none; no action is deleted twice, and a destroyed action is never invoked,
\* cancelled or deleted afterwards.
C16_UniqueOwnership ==
    /\ [](\A id \in Ids :
            /\ hist[id].freed <= 1
            /\ Holders(id) = (IF id <= nAlloc /\ ~Destroyed(id) THEN 1 ELSE 0))
    /\ [][\A id \in Ids : Destroyed(id) =>
            /\ hist'[id].fired = hist[id].fired
            /\ hist'[id].cancelled = hist[id].cancelled
            /\ hist'[id].freed = hist[id].freed]_vars

\* Both actions are destroyed: one was cancelled before it fired, one had
\* been invoked.
C16_Witness ==
    /\ Destroyed(1)
    /\ Destroyed(2)
    /\ \E id \in Ids : hist[id].cancelled /\ hist[id].fired = 0
    /\ \E id \in Ids : hist[id].fired > 0
    /\ mQueuedActions = << >>
    /\ mPendingActions = << >>

\* A step in which the owning thread reconciles: in the wait loop or at the
\* end of run().
ReconcileStep == pc \in {"reconcile", "flush"} /\ pc' # pc

\* C17: reconcile conserves the live actions.  After it pending is empty,
\* queued holds exactly the actions that were live in queued or pending, each
\* once and none cancelled, every cancelled entry has been destroyed, and a
\* second reconcile would change nothing.
C17_ReconcileConserves ==
    [][ReconcileStep =>
        /\ mPendingActions' = << >>
        /\ SeqRange(mQueuedActions') = Live
        /\ Len(mQueuedActions') = Cardinality(Live)
        /\ \A a \in Held : a.isCancelled => hist'[a.id].freed = 1
        /\ \A a \in Live : hist'[a.id].freed = 0
        /\ queuePending(mQueuedActions', mPendingActions').queued = mQueuedActions'
        /\ queuePending(mQueuedActions', mPendingActions').pending = << >>
        /\ DeletedByQueuePending(mQueuedActions') = << >>]_vars

\* A reconcile has merged a pending action and a queued one that was live.
C17_Witness ==
    /\ pc \in {"exec", "busy", "condwait"}
    /\ mPendingActions = << >>
    /\ Len(mQueuedActions) = 2
    /\ mQueuedActions[1].id = 2
    /\ mQueuedActions[2].id = 1
    /\ hist[1].fired > 0

\* The earliest trigger time among the actions of S, TimepointMax for none.
MinTrigger(S) ==
    IF S = {} THEN TimepointMax
    ELSE CHOOSE t \in {a.triggerTime : a \in S} :
            \A a \in S : t <= a.triggerTime

\* C18: the wake time.  A reconcile returns the earliest trigger time among
\* the live actions, which are the ones it leaves in queued, and TimepointMax
\* when there is none; the wait loop leaves for a pass exactly when that time
\* is not later than the clock and otherwise waits for it, so that a waiting
\* loop sleeps until the earliest trigger time of queued, none of them
\* cancelled.
C18_WakeTime ==
    /\ [][ReconcileStep =>
            /\ queuePending(mQueuedActions, mPendingActions).wakeTime
                  = MinTrigger(Live)
            /\ MinTrigger(Live) = MinTrigger(SeqRange(mQueuedActions'))
            /\ pc = "reconcile" =>
                  /\ pc' = "exec" <=> MinTrigger(Live) <= clock
                  /\ pc' # "exec" => sleepUntil' = MinTrigger(Live)]_vars
    /\ [](Waiting =>
            /\ sleepUntil = MinTrigger(Queued)
            /\ \A a \in Queued : ~a.isCancelled)

\* The loop waits for the earliest trigger time, which is not that of the
\* first queued entry.
C18_Witness ==
    /\ pc \in {"condwait", "busy"}
    /\ Len(mQueuedActions) = 2
    /\ mQueuedActions[2].triggerTime < mQueuedActions[1].triggerTime
    /\ sleepUntil = mQueuedActions[2].triggerTime

\* C19: the wait strategy.  After a reconcile the loop leaves for a pass when
\* the earliest trigger time is reached, busy-waits when it is less than 2 ms
\* ahead and enters the timed wait when it is 2 ms ahead or more.  The
\* busy-wait unlocks, yields and locks at least once and again as long as
\* the clock is before the trigger time and pending is empty.  Either wait
\* ends in a reconcile, and a pass begins only from a reconcile.
C19_WaitStrategy ==
    /\ [][pc = "reconcile" /\ pc' # pc =>
            LET remaining == MinTrigger(SeqRange(mQueuedActions')) - clock
            IN  /\ pc' = "exec" <=> remaining <= 0
                /\ pc' = "busy" <=> remaining > 0 /\ remaining < 2
                /\ pc' = "condwait" <=> remaining >= 2]_vars
    /\ [][pc = "busy" /\ pc' # pc => pc' = "busy_yield"]_vars
    /\ [][pc = "busy_yield" /\ pc' # pc =>
            pc' = (IF clock < sleepUntil /\ mPendingActions = << >>
                   THEN "busy" ELSE "reconcile")]_vars
    /\ [][pc = "condwait" /\ pc' # pc => pc' = "reconcile"]_vars
    /\ [][pc' = "exec" /\ pc' # pc => pc = "reconcile"]_vars

\* The loop is in the timed wait for a trigger time exactly 2 ms ahead.
C19_Witness ==
    /\ pc = "condwait"
    /\ sleepUntil = clock + 2
    /\ mQueuedActions # << >>

\* C20: the quit flag is never set when an execution pass begins, where
\* run() asserts it.
C20_AssertNotQuit == pc = "exec" => ~mQuit

\* A pass begins after an earlier pass has invoked a body that called the
\* Looper and returned.
C20_Witness ==
    /\ pc = "exec"
    /\ \E id \in Ids : hist[id].fired > 0
    /\ \E id \in Ids : hist[id].swept

=============================================================================
